---- MODULE Spec2Model ----
(***************************************************************************)
(* FormFit: the per-frame pose pipeline of components/CameraView.tsx       *)
(* (detectPose, adaptiveSmoothLandmarks, analyzePose) as a state machine.  *)
(*                                                                         *)
(* Fixed-point units (the source computes in IEEE doubles):                *)
(*   position   1 = 0.0001 of the normalized frame (x, y, z)               *)
(*   visibility 1 = 0.01                                                   *)
(*   score      1 = 1/2400  (mean of twelve visibilities, halved or not)   *)
(*   alpha      1 = 0.0001                                                 *)
(*   stability  1 = 0.0001                                                 *)
(*   time       1 = 100 ms of Date.now()                                   *)
(***************************************************************************)
EXTENDS Integers, Sequences, FiniteSets, TLC

VARIABLES
    clock,                  \* Date.now(), in ticks of 100 ms
    isTracking,             \* useState: the pose model is loaded
    hasPermission,          \* useState: the camera stream is attached
    workoutType,            \* prop
    isActive,               \* prop (App: isConnected)
    trackingQuality,        \* useState, published quality
    trackingScore,          \* useState, published score
    heuristicFeedback,      \* useState, the local cue
    trackingQualityRef,
    lastScoreUpdateRef,
    lastHeuristicUpdateRef,
    prevLandmarksRef,       \* <<>> (null) or <<smoothed landmarks>>
    lastValidLandmarksRef,  \* <<>> (null) or <<raw landmarks>>
    lastLandmarksTimeRef,
    stabilityScoreRef,
    lastMaskTimeRef,
    requestRef,             \* <<closure>>: the handle of the last element of scheduled; <<>>: undefined or cancelled
    scheduled,              \* the animation-frame callbacks pending, oldest first, each the detectPose of a render
    mounted,                \* the component is in the tree
    openMasks,              \* segmentation masks obtained and not closed
    refreshed,              \* the display refreshed since the last animation-frame callback
    frame,                  \* what the last executed detectPose did (observation only)
    ctx,                    \* the overlay canvas context: composite mode, saves not restored
    decodedAt,              \* clock reading of the last mask decoded into the mask canvas, -1: none (observation only)
    analyzedAt,             \* clock readings of the last two analyzePose runs, -1: none (observation only)
    service,                \* GeminiLiveService and the audio it plays
    probe                   \* argument and result of a function applied on its own

vars == <<clock, isTracking, hasPermission, workoutType, isActive,
          trackingQuality, trackingScore, heuristicFeedback,
          trackingQualityRef, lastScoreUpdateRef, lastHeuristicUpdateRef,
          prevLandmarksRef, lastValidLandmarksRef, lastLandmarksTimeRef,
          stabilityScoreRef, lastMaskTimeRef, requestRef, scheduled, mounted,
          openMasks, refreshed, frame, ctx, decodedAt, analyzedAt, service,
          probe>>

pipelineVars == <<clock, isTracking, hasPermission, workoutType, isActive,
          trackingQuality, trackingScore, heuristicFeedback,
          trackingQualityRef, lastScoreUpdateRef, lastHeuristicUpdateRef,
          prevLandmarksRef, lastValidLandmarksRef, lastLandmarksTimeRef,
          stabilityScoreRef, lastMaskTimeRef, requestRef, scheduled, mounted,
          openMasks, refreshed, frame, ctx, decodedAt, analyzedAt>>

-----------------------------------------------------------------------------
(* Bounds of the model *)

\* Date.now() when the component mounts, far beyond every window.
StartTick == 20
\* The clock stops MaxTicks ticks after the mount.
MaxTicks == 6
\* Largest motion metric a probe of the blend factor draws.
MaxMetric == 280
\* Largest local and global velocity drawn for one landmark.
MaxVelocity == 12
\* Largest score drawn for the classification, 1.0.
MaxScore == 2400
MaxOffset == 10
\* Server messages in a session
MaxMessages == 3

-----------------------------------------------------------------------------
(* Program constants, in the units above *)

minAlpha == 800
maxAlpha == 9200
lowerThreshold == 5
upperThreshold == 250
AlphaOne == 10000
\* 200 ms, read at line 341 (reuse) and at line 606 (reset)
GraceReuse == 2
GraceReset == 2
\* 200 ms, the reuse window of the mask canvas
MaskReuse == 2
\* 500 ms between analyzePose runs
HeuristicInterval == 5
\* 100 ms between quality publications
ScoreInterval == 1
\* |score - trackingScore| > 0.1
ScoreDelta == 240
\* score > 0.8, score > 0.5
GoodAbove == 1920
PoorAbove == 1200
\* shoulder width below 0.05 halves the score
NarrowShoulders == 500
\* bodyScale < 0.02
MinBodyScale == 200
\* isVisible: visibility > 0.5
VisibleAbove == 50

null == "null"

WorkoutTypes == {"SQUAT", "PUSHUP", "LUNGE", "BICEP_CURL", "PLANK", "TRICEP_EXTENSION"}

-----------------------------------------------------------------------------
(* Arithmetic *)

Abs(n) == IF n < 0 THEN -n ELSE n
Min(a, b) == IF a <= b THEN a ELSE b
Max(a, b) == IF a >= b THEN a ELSE b

RECURSIVE SqrtSearch(_, _, _)
SqrtSearch(n, lo, hi) ==
    IF lo >= hi THEN lo
    ELSE LET mid == (lo + hi + 1) \div 2
         IN  IF mid * mid <= n THEN SqrtSearch(n, mid, hi)
                               ELSE SqrtSearch(n, lo, mid - 1)

\* floor of the square root
ISqrt(n) == SqrtSearch(n, 0, Min(n, 46340))

\* Math.hypot, rounded down to the position grid
hypot(dx, dy) == SqrtSearch(dx * dx + dy * dy, 0, Abs(dx) + Abs(dy))

\* start + (end - start) * factor. The step is rounded up in magnitude: a
\* nonzero blend of a nonzero difference moves the value, as it does in doubles
\* until the step falls under half an ulp.
lerp(start, end, factor) ==
    LET d == end - start
        q == (Abs(d) * factor + AlphaOne - 1) \div AlphaOne
    IN  IF d >= 0 THEN start + q ELSE start - q

\* cos of 0..180 degrees, in thousandths (CosTable[d + 1] = cos d)
CosTable == <<
 1000, 1000, 999, 999, 998, 996, 995, 993, 990, 988, 985, 982, 978, 974, 970, 966, 961, 956, 951, 946,
 940, 934, 927, 921, 914, 906, 899, 891, 883, 875, 866, 857, 848, 839, 829, 819, 809, 799, 788, 777,
 766, 755, 743, 731, 719, 707, 695, 682, 669, 656, 643, 629, 616, 602, 588, 574, 559, 545, 530, 515,
 500, 485, 469, 454, 438, 423, 407, 391, 375, 358, 342, 326, 309, 292, 276, 259, 242, 225, 208, 191,
 174, 156, 139, 122, 105, 87, 70, 52, 35, 17, 0, -17, -35, -52, -70, -87, -105, -122, -139, -156,
 -174, -191, -208, -225, -242, -259, -276, -292, -309, -326, -342, -358, -375, -391, -407, -423, -438,
 -454, -469, -485, -500, -515, -530, -545, -559, -574, -588, -602, -616, -629, -643, -656, -669, -682,
 -695, -707, -719, -731, -743, -755, -766, -777, -788, -799, -809, -819, -829, -839, -848, -857, -866,
 -875, -883, -891, -899, -906, -914, -921, -927, -934, -940, -946, -951, -956, -961, -966, -970, -974,
 -978, -982, -985, -988, -990, -993, -995, -996, -998, -999, -999, -1000, -1000 >>

\* The interior angle at b between rays b->a and b->c, in whole degrees
\* (rounded down). Math.atan2(0, 0) is 0, the direction of (1, 0).
calculateAngle(a, b, c) ==
    LET ux0 == a.x - b.x
        uy0 == a.y - b.y
        vx0 == c.x - b.x
        vy0 == c.y - b.y
        uz  == ux0 = 0 /\ uy0 = 0
        vz  == vx0 = 0 /\ vy0 = 0
        ux  == IF uz THEN 1 ELSE ux0
        uy  == IF uz THEN 0 ELSE uy0
        vx  == IF vz THEN 1 ELSE vx0
        vy  == IF vz THEN 0 ELSE vy0
        dot == ux * vx + uy * vy
        len == Max(1, ISqrt((ux * ux + uy * uy)) * ISqrt((vx * vx + vy * vy)))
        cosine == Max(-1000, Min(1000, (dot * 1000) \div len))
    IN  Cardinality({d \in 1..180 : CosTable[d + 1] >= cosine})

-----------------------------------------------------------------------------
(* Landmarks.  A landmark is [x, y, z, visibility]; a landmark set is a     *)
(* function on LandmarkIdx, the indices detectPose and analyzePose read     *)
(* (shoulders 11/12 ... heels 29/30; the face and foot-tip points are only   *)
(* ever copied by the smoother).                                             *)

LandmarkIdx == 11..30

isVisible(lm) == lm.visibility > VisibleAbove

-----------------------------------------------------------------------------
(* adaptiveSmoothLandmarks *)

\* blendFactor without its lower branch: the curve is applied to every metric.
blendFactorNoFloor(metric) ==
    LET span  == upperThreshold - lowerThreshold
        tnum  == Min(span, metric - lowerThreshold)
        u     == span - tnum
        sq    == (u * u * AlphaOne) \div (span * span)
        cube  == (sq * u) \div span
        curve == AlphaOne - cube
    IN  minAlpha + ((maxAlpha - minAlpha) * curve) \div AlphaOne

\* blendFactor without Math.min(1, ...): t is not capped at 1.
blendFactorNoCap(metric) ==
    IF metric > lowerThreshold
    THEN LET span  == upperThreshold - lowerThreshold
             tnum  == metric - lowerThreshold
             u     == span - tnum
             sq    == (u * u * AlphaOne) \div (span * span)
             cube  == (sq * u) \div span
             curve == AlphaOne - cube
         IN  minAlpha + ((maxAlpha - minAlpha) * curve) \div AlphaOne
    ELSE minAlpha

\* The cubic ease-out from metric to blend factor.
blendFactor(metric) ==
    IF metric > lowerThreshold
    THEN LET span  == upperThreshold - lowerThreshold
             tnum  == Min(span, metric - lowerThreshold)  \* t = tnum / span
             u     == span - tnum                         \* 1 - t
             sq    == (u * u * AlphaOne) \div (span * span)
             cube  == (sq * u) \div span                  \* (1 - t)^3
             curve == AlphaOne - cube
         IN  minAlpha + ((maxAlpha - minAlpha) * curve) \div AlphaOne
    ELSE minAlpha

\* Math.max(localVelocity, globalVelocity * 0.6)
hybridMetric(localVelocity, globalVelocity) ==
    Max(localVelocity, (globalVelocity * 6) \div 10)

coreIndices == <<11, 12, 23, 24>>

RECURSIVE coreMovement(_, _, _)
coreMovement(current, prev, k) ==
    IF k = 0 THEN [total |-> 0, count |-> 0]
    ELSE LET rest == coreMovement(current, prev, k - 1)
             idx  == coreIndices[k]
         IN  IF idx \in DOMAIN current /\ idx \in DOMAIN prev
             THEN [total |-> rest.total
                               + hypot(current[idx].x - prev[idx].x,
                                       current[idx].y - prev[idx].y),
                   count |-> rest.count + 1]
             ELSE rest

globalVelocityOf(current, prev) ==
    LET m == coreMovement(current, prev, Len(coreIndices))
    IN  IF m.count > 0 THEN m.total \div m.count ELSE 0

smoothLandmark(curr, p, globalVelocity) ==
    LET localVelocity == hypot(curr.x - p.x, curr.y - p.y)
        alpha == blendFactor(hybridMetric(localVelocity, globalVelocity))
    IN  [x |-> lerp(p.x, curr.x, alpha),
         y |-> lerp(p.y, curr.y, alpha),
         z |-> lerp(p.z, curr.z, alpha),
         visibility |-> curr.visibility]

\* Line 653-654: p = prev[i] is undefined for a point the retained set
\* lacks, and p.x throws.
smoothThrows(current, prev) ==
    prev # <<>> /\ \E i \in DOMAIN current : i \notin DOMAIN prev[1]

\* prev is <<>> (null) or <<landmark set>>
adaptiveSmoothLandmarks(current, prev) ==
    IF prev = <<>> THEN current
    ELSE LET g == globalVelocityOf(current, prev[1])
         IN  [i \in DOMAIN current |-> smoothLandmark(current[i], prev[1][i], g)]

-----------------------------------------------------------------------------
(* Overlay renderer: which shapes a cycle paints.  A shape is named by the   *)
(* landmarks it is drawn from: the torso <<11, 12, 23, 24>>, a muscle part   *)
(* <<start, end>>, a joint weld <<idx>>.                                     *)

Torso == <<11, 12, 23, 24>>

\* drawMusclePart calls, lines 517-530
MuscleParts ==
    {<<11, 13>>, <<12, 14>>, <<13, 15>>, <<14, 16>>, <<23, 25>>, <<24, 26>>,
     <<25, 27>>, <<26, 28>>, <<15, 19>>, <<15, 17>>, <<16, 20>>, <<16, 18>>}

\* drawJointWeld calls, lines 549-558
JointWelds == {11, 12, 13, 14, 23, 24, 25, 26, 15, 16}

\* Lines 482-485 read x and y of both shoulders and both hips unguarded.
torsoThrows(smoothedLandmarks) ==
    \E i \in {11, 12, 23, 24} : i \notin DOMAIN smoothedLandmarks

\* if (!start || !end) return;
musclePartsPainted(smoothedLandmarks) ==
    {part \in MuscleParts : /\ part[1] \in DOMAIN smoothedLandmarks
                            /\ part[2] \in DOMAIN smoothedLandmarks}

\* if (!lm || (lm.visibility ?? 0) < 0.1) return;
jointWeldsPainted(smoothedLandmarks) ==
    {<<idx>> : idx \in {j \in JointWelds :
                          /\ j \in DOMAIN smoothedLandmarks
                          /\ smoothedLandmarks[j].visibility >= 10}}

\* What lines 481-558 paint; the torso comes first and its exception leaves
\* the rest unpainted.
paintedShapes(smoothedLandmarks) ==
    IF torsoThrows(smoothedLandmarks) THEN {}
    ELSE {Torso} \cup musclePartsPainted(smoothedLandmarks)
                 \cup jointWeldsPainted(smoothedLandmarks)

-----------------------------------------------------------------------------
(* Tracking quality *)

RECURSIVE sumVisibility(_, _)
sumVisibility(lms, i) ==
    IF i < 11 THEN [total |-> 0, count |-> 0]
    ELSE LET rest == sumVisibility(lms, i - 1)
         IN  IF i \in DOMAIN lms
             THEN [total |-> rest.total + lms[i].visibility, count |-> rest.count + 1]
             ELSE rest

\* count > 0 ? totalVis / count : 0 over landmarks 11..22
meanVisibility(smoothedLandmarks) ==
    LET v == sumVisibility(smoothedLandmarks, 22)
    IN  IF v.count > 0 THEN (v.total * 24) \div v.count ELSE 0

\* The mean visibility of landmarks 11..22, halved for narrow shoulders.
scoreOf(smoothedLandmarks) ==
    LET mean   == meanVisibility(smoothedLandmarks)
        sWidth == Abs(smoothedLandmarks[11].x - smoothedLandmarks[12].x)
    IN  IF sWidth < NarrowShoulders THEN mean \div 2 ELSE mean

\* classify with >= for > at both thresholds.
classifyAtLeast(currentScore) ==
    IF currentScore >= GoodAbove THEN "GOOD"
    ELSE IF currentScore >= PoorAbove THEN "POOR"
    ELSE "LOST"

classify(currentScore) ==
    IF currentScore > GoodAbove THEN "GOOD"
    ELSE IF currentScore > PoorAbove THEN "POOR"
    ELSE "LOST"

-----------------------------------------------------------------------------
(* analyzePose.  bodyScale = (shoulderWidth + torsoHeight) / 2 holds two    *)
(* halvings; scale4 = 4 * bodyScale is exact on the grid and every           *)
(* comparison is multiplied through by its denominator.                      *)

bodyScale4(landmarks) ==
    LET shoulderWidth == Abs(landmarks[11].x - landmarks[12].x)
        torsoHeight2  == Abs((landmarks[11].y + landmarks[12].y)
                               - (landmarks[23].y + landmarks[24].y))
    IN  2 * shoulderWidth + torsoHeight2

\* bodyScale < 0.02
tooSmall(landmarks) == bodyScale4(landmarks) < 4 * MinBodyScale

\* squatCue with the knee-depth rule tried first.
squatCueDepthFirst(landmarks) ==
    LET scale4     == bodyScale4(landmarks)
        kneeWidth  == Abs(landmarks[25].x - landmarks[26].x)
        ankleWidth == Abs(landmarks[27].x - landmarks[28].x)
    IN  IF \/ 20 * landmarks[25].z < 20 * landmarks[27].z - 3 * scale4
           \/ 20 * landmarks[26].z < 20 * landmarks[28].z - 3 * scale4
        THEN "Keep Knees Behind Toes"
        ELSE IF 20 * ankleWidth > scale4 /\ 4 * kneeWidth < 3 * ankleWidth
        THEN "Push Knees Out!"
        ELSE null

squatCue(landmarks) ==
    LET scale4     == bodyScale4(landmarks)
        kneeWidth  == Abs(landmarks[25].x - landmarks[26].x)
        ankleWidth == Abs(landmarks[27].x - landmarks[28].x)
    IN  IF 20 * ankleWidth > scale4 /\ 4 * kneeWidth < 3 * ankleWidth
        THEN "Push Knees Out!"
        ELSE IF \/ 20 * landmarks[25].z < 20 * landmarks[27].z - 3 * scale4
                \/ 20 * landmarks[26].z < 20 * landmarks[28].z - 3 * scale4
        THEN "Keep Knees Behind Toes"
        ELSE null

pushupCue(landmarks) ==
    LET scale4 == bodyScale4(landmarks)
    IN  IF /\ 40 * landmarks[23].y > 40 * landmarks[11].y + 3 * scale4
           /\ 40 * landmarks[23].y > 40 * landmarks[29].y + 3 * scale4
        THEN "Lift Your Hips!"
        ELSE null

lungeCue(stabilityScore) ==
    IF stabilityScore > 30 THEN "Balance & Control" ELSE null

\* bicepCurlCue with the torso rule tried before the arm rules.
bicepCurlCueTorsoFirst(landmarks, stabilityScore) ==
    LET shoulderWidth == Abs(landmarks[11].x - landmarks[12].x)
        leftActive  == landmarks[15].y < landmarks[23].y /\ isVisible(landmarks[15])
        rightActive == landmarks[16].y < landmarks[24].y /\ isVisible(landmarks[16])
        leftDrift   == Abs(landmarks[13].x - landmarks[11].x)
        rightDrift  == Abs(landmarks[14].x - landmarks[12].x)
    IN  IF stabilityScore > 25
        THEN "Keep Torso Still"
        ELSE IF leftActive /\ 10 * leftDrift > 9 * shoulderWidth
        THEN "Tuck Left Elbow"
        ELSE IF /\ leftActive
                /\ calculateAngle(landmarks[11], landmarks[13], landmarks[15]) > 160
                /\ stabilityScore < 10
        THEN "Curl up fully"
        ELSE IF rightActive /\ 10 * rightDrift > 9 * shoulderWidth
        THEN "Tuck Right Elbow"
        ELSE null

bicepCurlCue(landmarks, stabilityScore) ==
    LET shoulderWidth == Abs(landmarks[11].x - landmarks[12].x)
        leftActive  == landmarks[15].y < landmarks[23].y /\ isVisible(landmarks[15])
        rightActive == landmarks[16].y < landmarks[24].y /\ isVisible(landmarks[16])
        leftDrift   == Abs(landmarks[13].x - landmarks[11].x)
        rightDrift  == Abs(landmarks[14].x - landmarks[12].x)
    IN  IF leftActive /\ 10 * leftDrift > 9 * shoulderWidth
        THEN "Tuck Left Elbow"
        ELSE IF /\ leftActive
                /\ calculateAngle(landmarks[11], landmarks[13], landmarks[15]) > 160
                /\ stabilityScore < 10
        THEN "Curl up fully"
        ELSE IF rightActive /\ 10 * rightDrift > 9 * shoulderWidth
        THEN "Tuck Right Elbow"
        ELSE IF stabilityScore > 25
        THEN "Keep Torso Still"
        ELSE null

plankCue(landmarks, stabilityScore) ==
    LET scale4    == bodyScale4(landmarks)
        hipY2      == landmarks[23].y + landmarks[24].y
        ankleY2    == landmarks[27].y + landmarks[28].y
        shoulderY2 == landmarks[11].y + landmarks[12].y
    IN  IF 20 * hipY2 > 20 * ankleY2 + 3 * scale4 THEN "Raise Hips!"
        ELSE IF 40 * hipY2 < 40 * shoulderY2 - 3 * scale4 THEN "Lower Hips"
        ELSE IF stabilityScore > 20 THEN "Hold Steady!"
        ELSE null

tricepCue(landmarks, stabilityScore) ==
    LET shoulderWidth  == Abs(landmarks[11].x - landmarks[12].x)
        isLeft         == landmarks[13].y < landmarks[14].y
        activeShoulder == IF isLeft THEN landmarks[11] ELSE landmarks[12]
        activeElbow    == IF isLeft THEN landmarks[13] ELSE landmarks[14]
        activeWrist    == IF isLeft THEN landmarks[15] ELSE landmarks[16]
        isOverhead     == activeElbow.y < activeShoulder.y
        elbowFlare     == Abs(activeElbow.x - activeShoulder.x)
        angle          == calculateAngle(activeShoulder, activeElbow, activeWrist)
    IN  IF ~isVisible(activeElbow) \/ ~isVisible(activeWrist) THEN null
        ELSE IF ~isOverhead THEN "Raise Elbow High"
        ELSE IF 10 * elbowFlare > 14 * shoulderWidth THEN "Elbow closer to ear"
        ELSE IF stabilityScore < 10 /\ angle > 70 /\ angle < 140 THEN "Full Range needed"
        ELSE IF stabilityScore < 10 /\ angle < 60 THEN "Extend Up"
        ELSE IF stabilityScore < 10 /\ angle > 150 THEN "Lower Behind Head"
        ELSE null

workoutCue(landmarks, workout, stabilityScore) ==
    CASE workout = "SQUAT"            -> squatCue(landmarks)
      [] workout = "PUSHUP"           -> pushupCue(landmarks)
      [] workout = "LUNGE"            -> lungeCue(stabilityScore)
      [] workout = "BICEP_CURL"       -> bicepCurlCue(landmarks, stabilityScore)
      [] workout = "PLANK"            -> plankCue(landmarks, stabilityScore)
      [] workout = "TRICEP_EXTENSION" -> tricepCue(landmarks, stabilityScore)

\* analyzePose without the bodyScale precondition.
analyzePoseUnchecked(landmarks, workout, stabilityScore) ==
    workoutCue(landmarks, workout, stabilityScore)

analyzePose(landmarks, workout, stabilityScore) ==
    IF tooSmall(landmarks) THEN null
    ELSE workoutCue(landmarks, workout, stabilityScore)

\* The landmarks whose fields analyzePose reads on its way to its result.
analyzeReads(landmarks, workout, stabilityScore) ==
    LET D == DOMAIN landmarks
    IN  {11, 12, 23, 24} \cup
        IF ~({11, 12, 23, 24} \subseteq D) THEN {}
        ELSE IF tooSmall(landmarks) THEN {}
        ELSE CASE workout = "SQUAT" -> {25, 26, 27, 28}
               [] workout = "PUSHUP" ->
                    IF 40 * landmarks[23].y
                          > 40 * landmarks[11].y + 3 * bodyScale4(landmarks)
                    THEN {29} ELSE {}
               [] workout = "LUNGE" -> {}
               [] workout = "BICEP_CURL" ->
                    {15, 16} \cup
                    IF ~({15, 16} \subseteq D) THEN {}
                    ELSE LET leftActive  == /\ landmarks[15].y < landmarks[23].y
                                            /\ isVisible(landmarks[15])
                             rightActive == /\ landmarks[16].y < landmarks[24].y
                                            /\ isVisible(landmarks[16])
                             leftReturns ==
                                 \/ 10 * Abs(landmarks[13].x - landmarks[11].x)
                                      > 9 * Abs(landmarks[11].x - landmarks[12].x)
                                 \/ /\ calculateAngle(landmarks[11], landmarks[13],
                                                      landmarks[15]) > 160
                                    /\ stabilityScore < 10
                         IN  IF leftActive /\ 13 \notin D THEN {13}
                             ELSE IF leftActive /\ leftReturns THEN {13}
                             ELSE IF rightActive THEN {14}
                             ELSE {}
               [] workout = "PLANK" -> {27, 28}
               [] workout = "TRICEP_EXTENSION" ->
                    {13, 14} \cup
                    IF ~({13, 14} \subseteq D) THEN {}
                    ELSE LET isLeft == landmarks[13].y < landmarks[14].y
                             elbow  == IF isLeft THEN 13 ELSE 14
                             wrist  == IF isLeft THEN 15 ELSE 16
                         IN  IF isVisible(landmarks[elbow]) THEN {wrist} ELSE {}

\* A field of a missing landmark is read: TypeError.
analyzeThrows(landmarks, workout, stabilityScore) ==
    ~(analyzeReads(landmarks, workout, stabilityScore) \subseteq DOMAIN landmarks)

-----------------------------------------------------------------------------
(* Frames the pose model can return *)

\* A front-facing standing subject: <<x, y, z>> of landmarks 11..30.
Skeleton == <<
    <<6000, 3000, 0>>, <<4000, 3000, 0>>,      \* 11, 12 shoulders
    <<6200, 4300, 0>>, <<3800, 4300, 0>>,      \* 13, 14 elbows
    <<6200, 5500, 0>>, <<3800, 5500, 0>>,      \* 15, 16 wrists
    <<6250, 5700, 0>>, <<3750, 5700, 0>>,      \* 17, 18 pinkies
    <<6200, 5750, 0>>, <<3800, 5750, 0>>,      \* 19, 20 index fingers
    <<6150, 5650, 0>>, <<3850, 5650, 0>>,      \* 21, 22 thumbs
    <<5600, 6000, 0>>, <<4400, 6000, 0>>,      \* 23, 24 hips
    <<5700, 7500, 0>>, <<4300, 7500, 0>>,      \* 25, 26 knees
    <<5700, 9000, 0>>, <<4300, 9000, 0>>,      \* 27, 28 ankles
    <<5700, 9200, 0>>, <<4300, 9200, 0>> >>    \* 29, 30 heels

\* The subject displaced by shift along x, every point seen with visibility vis.
Pose(shift, vis) ==
    [i \in LandmarkIdx |->
        [x |-> Skeleton[i - 10][1] + shift,
         y |-> Skeleton[i - 10][2],
         z |-> Skeleton[i - 10][3],
         visibility |-> vis]]

\* detectForVideo returns landmarks, returns none, or throws; fault: an
\* exception thrown after the landmark persistence block and before
\* ctx.save() at line 389 (mask decoding, lines 354-383).  The exceptions of
\* the smoother, the renderer and the analyzer are smoothThrows, torsoThrows
\* and analyzeThrows.
DetectionsOf(poses) ==
    [kind : {"pose"}, pose : poses, fault : BOOLEAN, mask : {FALSE}]
    \cup {[kind |-> "none", pose |-> <<>>, fault |-> FALSE, mask |-> FALSE],
          [kind |-> "throw", pose |-> <<>>, fault |-> FALSE, mask |-> FALSE]}

\* The same with a segmentation mask (results.segmentationMasks[0]) or none
\* in every result that detectForVideo returns.
MaskedDetectionsOf(poses) ==
    [kind : {"pose"}, pose : poses, fault : BOOLEAN, mask : BOOLEAN]
    \cup [kind : {"none"}, pose : {<<>>}, fault : BOOLEAN, mask : BOOLEAN]
    \cup {[kind |-> "throw", pose |-> <<>>, fault |-> FALSE, mask |-> FALSE]}

\* The frames of the session scenarios: one steady, well-seen subject.
SteadyPoses == {Pose(0, 90)}

\* The frames of the tracking scenarios: seen well, at the GOOD/POOR boundary,
\* at the POOR/LOST boundary, and displaced.
MovingPoses == {Pose(0, 90), Pose(0, 80), Pose(0, 50), Pose(100, 90)}

-----------------------------------------------------------------------------
(* detectPose *)

\* The values a detectPose closure captured from the render that scheduled it.
Closure == [isActive |-> isActive, workoutType |-> workoutType,
            trackingScore |-> trackingScore]

\* Grace period: use the last known landmarks
graceReuse(now) ==
    lastValidLandmarksRef # <<>> /\ now - lastLandmarksTimeRef < GraceReuse

\* trackingLost with a window one tick longer.
trackingLostLate(now) == now - lastLandmarksTimeRef > GraceReset + 1

trackingLost(now) == now - lastLandmarksTimeRef > GraceReset

\* heuristicDue with >= for >.
heuristicDueAtLeast(active, now) ==
    active /\ now - lastHeuristicUpdateRef >= HeuristicInterval

heuristicDue(active, now) ==
    active /\ now - lastHeuristicUpdateRef > HeuristicInterval

shouldPublish(currentQuality, currentScore, closureScore, currentTime) ==
    \/ currentQuality # trackingQualityRef
    \/ Abs(currentScore - closureScore) > ScoreDelta
    \/ currentTime - lastScoreUpdateRef > ScoreInterval

\* Distance between the hip midpoints of two landmark sets: half the distance
\* between the sums of the two hips.
hipMovement(landmarks, prev) ==
    LET dx2 == (landmarks[23].x + landmarks[24].x) - (prev[23].x + prev[24].x)
        dy2 == (landmarks[23].y + landmarks[24].y) - (prev[23].y + prev[24].y)
    IN  hypot(dx2, dy2) \div 2

\* nextStability with the movement not weighted by 0.1.
nextStabilityUnweighted(stabilityScore, movement) ==
    (9 * stabilityScore + 10 * movement) \div 10

\* stabilityScore * 0.9 + movement * 0.1
nextStability(stabilityScore, movement) == (9 * stabilityScore + movement) \div 10

\* How long before `now` landmarks were last supplied, against the 200 ms window.
WindowOf(now, suppliedAt) ==
    IF now - suppliedAt < 2 THEN "within"
    ELSE IF now - suppliedAt = 2 THEN "edge" ELSE "past"

NoFrame == [ran |-> "init", result |-> "-", fault |-> FALSE, window |-> "past",
            landmarks |-> <<>>, quality |-> "LOST", score |-> 0,
            analyzed |-> FALSE, cue |-> null, published |-> FALSE, mask |-> FALSE,
            clipped |-> FALSE,
            painted |-> {}, aborted |-> FALSE]

\* rescheduled without the request: the callback is not put back.
rescheduledNot(queue) == Tail(queue)

\* The callback at the head of the queue has run and ended with
\* requestRef.current = requestAnimationFrame(detectPose), lines 292 and 631.
rescheduled(queue) == Append(Tail(queue), Head(queue))

\* cancelPending without the cancellation.
cancelNothing(queue, handle) == queue

\* The effect's cleanup, line 687: cancelAnimationFrame(requestRef.current)
\* removes the callback the handle designates, the last one requested.
cancelPending(queue, handle) ==
    IF handle # <<>> /\ queue # <<>>
    THEN SubSeq(queue, 1, Len(queue) - 1)
    ELSE queue

\* masksClosed with the close of the catch block missing.
masksClosedOnSuccess(obtained, threw) ==
    IF obtained /\ ~threw THEN 1 ELSE 0

\* Lines 613-615 on the normal path and line 619 in the catch block close the
\* cycle's mask.
masksClosed(obtained, threw) ==
    IF obtained THEN 1 ELSE 0

\* The canvas context as getContext('2d') returns it.
DefaultState == [globalCompositeOperation |-> "source-over", saved |-> 0]

\* Lines 353-386: the mask canvas is drawn when this cycle decoded a mask
\* into it, or when the cycle has no mask and the last one obtained is
\* under 200 ms old.
maskDrawnOf(obtained, decoded, now) ==
    IF obtained THEN decoded ELSE now - lastMaskTimeRef < MaskReuse

\* Lines 389-582 on the canvas context: ctx.save(), the composite mode of
\* the anatomy (423-427), and, when line 581 is reached, source-over and
\* ctx.restore(), which puts back the state saved at 389.
contextAfter(state, saveReached, restoreReached, maskDrawn) ==
    IF saveReached /\ ~restoreReached
    THEN [globalCompositeOperation |->
              IF maskDrawn THEN "source-atop" ELSE "source-over",
          saved |-> state.saved + 1]
    ELSE state

\* GeminiLiveService after connect: no message received, no handler waiting
\* for its audio, no source, nextStartTime 0.  received counts the server
\* messages and numbers them; playing is the set of sources the audio
\* context has started and that have neither ended nor been stopped; stale
\* is the set of audio messages received before an interruption that has
\* been handled (observation only).
Connected ==
    [received |-> 0, decoding |-> {}, sources |-> {}, nextStartTime |-> 0,
     playing |-> {}, stale |-> {}]

\* The guards of lines 275-281 or 291 fail: nothing but the reschedule.
SkipFrame ==
    /\ frame' = [NoFrame EXCEPT !.ran = "skip"]
    /\ refreshed' = FALSE
    /\ scheduled' = rescheduled(scheduled)
    /\ requestRef' = <<Head(scheduled)>>
    /\ UNCHANGED <<clock, isTracking, hasPermission, workoutType, isActive,
                   trackingQuality, trackingScore, heuristicFeedback,
                   trackingQualityRef, lastScoreUpdateRef, lastHeuristicUpdateRef,
                   prevLandmarksRef, lastValidLandmarksRef, lastLandmarksTimeRef,
                   stabilityScoreRef, lastMaskTimeRef, mounted, openMasks,
                   ctx, decodedAt, analyzedAt, service, probe>>

\* landmarksOf reusing the retained smoothed set instead of the last raw set.
landmarksOfRetained(det, now) ==
    IF det.kind = "pose" THEN <<det.pose>>
    ELSE IF det.kind = "none" /\ graceReuse(now) THEN prevLandmarksRef
    ELSE <<>>

\* The landmark persistence block: the landmarks this cycle works on.
landmarksOf(det, now) ==
    IF det.kind = "pose" THEN <<det.pose>>
    ELSE IF det.kind = "none" /\ graceReuse(now) THEN lastValidLandmarksRef
    ELSE <<>>

\* The hips are read after prevLandmarksRef was assigned this cycle's smoothed set.
stabilityAfter(landmarks, smoothed) ==
    nextStability(stabilityScoreRef, hipMovement(landmarks, smoothed))

\* cueAfter with the cue set in every cycle.
cueAfterAlways(analyzed, localCue, previous) == localCue

\* Lines 600-604: setHeuristicFeedback is called only where the analyzer ran.
cueAfter(analyzed, localCue, previous) ==
    IF analyzed THEN localCue ELSE previous

\* The body of detectPose on detection result det.
RunFrame(det) ==
    LET closure   == Head(scheduled)
        now       == clock
        supplied  == det.kind = "pose"
        \* lines 329-332: the result carries a segmentation mask
        obtained  == det.kind # "throw" /\ det.mask
        landmarks == landmarksOf(det, now)
        \* line 430 is reached with landmarks
        attempted == landmarks # <<>> /\ det.kind # "throw" /\ ~det.fault
        \* line 577 is reached: neither the smoother nor the renderer threw
        drawn     == /\ attempted
                     /\ ~smoothThrows(landmarks[1], prevLandmarksRef)
                     /\ ~torsoThrows(landmarks[1])
        threw     == det.kind = "throw" \/ det.fault \/ (attempted /\ ~drawn)
        reset     == ~threw /\ landmarks = <<>> /\ trackingLost(now)
        \* lines 354-383: the mask was decoded into the mask canvas
        decoded   == obtained /\ ~det.fault
        \* line 389 is reached
        saving    == det.kind # "throw" /\ ~det.fault
        maskDrawn == saving /\ maskDrawnOf(obtained, decoded, now)
    IN  \E smoothed \in {IF drawn
                         THEN <<adaptiveSmoothLandmarks(landmarks[1], prevLandmarksRef)>>
                         ELSE <<>>} :
        \E currentScore \in {IF drawn THEN scoreOf(smoothed[1]) ELSE 0} :
        \E stability \in {IF drawn THEN stabilityAfter(landmarks[1], smoothed[1])
                                   ELSE stabilityScoreRef} :
        LET currentQuality == IF drawn THEN classify(currentScore) ELSE "LOST"
            analyze  == drawn /\ heuristicDue(closure.isActive, now)
            analyzed == analyze /\ ~analyzeThrows(landmarks[1], closure.workoutType,
                                                 stability)
            localCue == IF analyzed
                        THEN analyzePose(landmarks[1], closure.workoutType, stability)
                        ELSE null
            publish  == shouldPublish(currentQuality, currentScore,
                                      closure.trackingScore, now)
        IN  /\ lastValidLandmarksRef' =
                   IF supplied THEN <<det.pose>> ELSE lastValidLandmarksRef
            /\ lastLandmarksTimeRef' =
                   IF supplied THEN now ELSE lastLandmarksTimeRef
            /\ prevLandmarksRef' =
                   IF drawn THEN smoothed
                   ELSE IF reset THEN <<>> ELSE prevLandmarksRef
            /\ stabilityScoreRef' = stability
            /\ heuristicFeedback' = cueAfter(analyzed, localCue, heuristicFeedback)
            /\ lastHeuristicUpdateRef' = IF analyzed THEN now ELSE lastHeuristicUpdateRef
            /\ analyzedAt' = IF analyze THEN <<analyzedAt[2], now>> ELSE analyzedAt
            /\ trackingQualityRef' = IF publish THEN currentQuality ELSE trackingQualityRef
            /\ trackingQuality' = IF publish THEN currentQuality ELSE trackingQuality
            /\ trackingScore' = IF publish THEN currentScore ELSE trackingScore
            /\ lastScoreUpdateRef' = IF publish THEN now ELSE lastScoreUpdateRef
            /\ frame' = [ran |-> "run", result |-> det.kind, fault |-> det.fault,
                         window |-> WindowOf(now, lastLandmarksTimeRef),
                         landmarks |-> landmarks,
                         quality |-> currentQuality, score |-> currentScore,
                         analyzed |-> analyzed, cue |-> localCue,
                         published |-> publish, mask |-> obtained,
                         clipped |-> drawn /\ maskDrawn,
                         painted |-> IF drawn THEN paintedShapes(smoothed[1]) ELSE {},
                         aborted |-> threw \/ (analyze /\ ~analyzed)]
            /\ refreshed' = FALSE
            /\ scheduled' = rescheduled(scheduled)
            /\ requestRef' = <<closure>>
            /\ lastMaskTimeRef' = IF obtained THEN now ELSE lastMaskTimeRef
            /\ decodedAt' = IF decoded THEN now ELSE decodedAt
            /\ ctx' = contextAfter(ctx, saving, saving /\ ~(attempted /\ ~drawn),
                                   maskDrawn)
            /\ openMasks' = (openMasks + IF obtained THEN 1 ELSE 0)
                              - masksClosed(obtained, threw \/ (analyze /\ ~analyzed))
            /\ UNCHANGED <<clock, isTracking, hasPermission, workoutType, isActive,
                           mounted, service, probe>>

\* The animation-frame callback: detectPose runs once per display refresh and
\* always reschedules itself.
DetectPoseOn(detections) ==
    /\ scheduled # <<>>
    /\ refreshed
    /\ \E ready \in BOOLEAN :
         IF ready THEN \E det \in detections : RunFrame(det) ELSE SkipFrame

-----------------------------------------------------------------------------
(* The component around the loop *)

\* The frame-loop effect: its cleanup cancels the pending frame, its body
\* schedules detectPose of the new render when tracking and camera are ready.
\* Primed variables: the effect runs after the render that changed them.
RunEffect ==
    LET detectPose == [isActive |-> isActive', workoutType |-> workoutType',
                       trackingScore |-> trackingScore']
        cleaned    == cancelPending(scheduled, requestRef)
    IN  IF isTracking' /\ hasPermission'
        THEN /\ scheduled' = Append(cleaned, detectPose)
             /\ requestRef' = <<detectPose>>
        ELSE /\ scheduled' = cleaned
             /\ requestRef' = <<>>

\* initPose resolved: setIsTracking(true)
PoseModelLoaded ==
    /\ mounted
    /\ ~isTracking
    /\ isTracking' = TRUE
    /\ UNCHANGED <<clock, hasPermission, workoutType, isActive,
                   trackingQuality, trackingScore, heuristicFeedback,
                   trackingQualityRef, lastScoreUpdateRef, lastHeuristicUpdateRef,
                   prevLandmarksRef, lastValidLandmarksRef, lastLandmarksTimeRef,
                   stabilityScoreRef, lastMaskTimeRef, mounted, openMasks,
                   refreshed, frame, ctx, decodedAt, analyzedAt, service, probe>>
    /\ RunEffect

\* startCamera resolved: setHasPermission(true)
CameraGranted ==
    /\ mounted
    /\ ~hasPermission
    /\ hasPermission' = TRUE
    /\ UNCHANGED <<clock, isTracking, workoutType, isActive,
                   trackingQuality, trackingScore, heuristicFeedback,
                   trackingQualityRef, lastScoreUpdateRef, lastHeuristicUpdateRef,
                   prevLandmarksRef, lastValidLandmarksRef, lastLandmarksTimeRef,
                   stabilityScoreRef, lastMaskTimeRef, mounted, openMasks,
                   refreshed, frame, ctx, decodedAt, analyzedAt, service, probe>>
    /\ RunEffect

\* App: a workout button, enabled while no session is connected
SelectWorkout ==
    /\ mounted
    /\ ~isActive
    /\ \E w \in WorkoutTypes \ {workoutType} : workoutType' = w
    /\ UNCHANGED <<clock, isTracking, hasPermission, isActive,
                   trackingQuality, trackingScore, heuristicFeedback,
                   trackingQualityRef, lastScoreUpdateRef, lastHeuristicUpdateRef,
                   prevLandmarksRef, lastValidLandmarksRef, lastLandmarksTimeRef,
                   stabilityScoreRef, lastMaskTimeRef, mounted, openMasks,
                   refreshed, frame, ctx, decodedAt, analyzedAt, service, probe>>
    /\ RunEffect

\* App.toggleSession: connecting needs the video element; isActive is no
\* dependency of the frame-loop effect, so the scheduled closure stays.
ToggleSession ==
    /\ mounted
    /\ isActive \/ hasPermission
    /\ isActive' = ~isActive
    /\ UNCHANGED <<clock, isTracking, hasPermission, workoutType,
                   trackingQuality, trackingScore, heuristicFeedback,
                   trackingQualityRef, lastScoreUpdateRef, lastHeuristicUpdateRef,
                   prevLandmarksRef, lastValidLandmarksRef, lastLandmarksTimeRef,
                   stabilityScoreRef, lastMaskTimeRef, requestRef, scheduled,
                   mounted, openMasks, refreshed, frame, ctx, decodedAt, analyzedAt, service, probe>>

\* The component is removed: the cleanup of the frame-loop effect runs.
Unmount ==
    /\ mounted
    /\ mounted' = FALSE
    /\ scheduled' = cancelPending(scheduled, requestRef)
    /\ requestRef' = <<>>
    /\ UNCHANGED <<clock, isTracking, hasPermission, workoutType, isActive,
                   trackingQuality, trackingScore, heuristicFeedback,
                   trackingQualityRef, lastScoreUpdateRef, lastHeuristicUpdateRef,
                   prevLandmarksRef, lastValidLandmarksRef, lastLandmarksTimeRef,
                   stabilityScoreRef, lastMaskTimeRef, openMasks, refreshed,
                   frame, ctx, decodedAt, analyzedAt, service, probe>>

\* 100 ms pass and the display refreshes
Tick ==
    /\ clock < StartTick + MaxTicks
    /\ clock' = clock + 1
    /\ refreshed' = TRUE
    /\ UNCHANGED <<isTracking, hasPermission, workoutType, isActive,
                   trackingQuality, trackingScore, heuristicFeedback,
                   trackingQualityRef, lastScoreUpdateRef, lastHeuristicUpdateRef,
                   prevLandmarksRef, lastValidLandmarksRef, lastLandmarksTimeRef,
                   stabilityScoreRef, lastMaskTimeRef, requestRef, scheduled,
                   mounted, openMasks, frame, ctx, decodedAt, analyzedAt, service, probe>>

\* The component as first rendered: state and refs at their initial values.
Mounted ==
    /\ clock = StartTick
    /\ isTracking = FALSE
    /\ hasPermission = FALSE
    /\ workoutType = "SQUAT"
    /\ isActive = FALSE
    /\ trackingQuality = "LOST"
    /\ trackingScore = 0
    /\ heuristicFeedback = null
    /\ trackingQualityRef = "LOST"
    /\ lastScoreUpdateRef = 0
    /\ lastHeuristicUpdateRef = 0
    /\ prevLandmarksRef = <<>>
    /\ lastValidLandmarksRef = <<>>
    /\ lastLandmarksTimeRef = 0
    /\ stabilityScoreRef = 0
    /\ lastMaskTimeRef = 0
    /\ requestRef = <<>>
    /\ scheduled = <<>>
    /\ mounted = TRUE
    /\ openMasks = 0
    /\ refreshed = TRUE
    /\ frame = NoFrame
    /\ ctx = DefaultState
    /\ service = Connected
    /\ decodedAt = -1
    /\ analyzedAt = <<-1, -1>>

Init ==
    /\ Mounted
    /\ probe = [fn |-> "none"]

\* One execution of the scheduled detectPose
DetectPose == DetectPoseOn(DetectionsOf(SteadyPoses))

Next ==
    \/ Tick
    \/ PoseModelLoaded
    \/ CameraGranted
    \/ SelectWorkout
    \/ ToggleSession
    \/ DetectPose

\* The component from its mount: start-up, session, workout selection, frames.
Spec == Init /\ [][Next]_vars

-----------------------------------------------------------------------------
(* Tracking scenarios: the frame loop has just been started, with or        *)
(* without a session connected before the pose model loaded, and the subject *)
(* moves and is seen more or less well.                                      *)

TrackingInit ==
    /\ clock = StartTick
    /\ isTracking = TRUE
    /\ hasPermission = TRUE
    /\ workoutType = "SQUAT"
    /\ isActive \in BOOLEAN
    /\ trackingQuality = "LOST"
    /\ trackingScore = 0
    /\ heuristicFeedback = null
    /\ trackingQualityRef = "LOST"
    /\ lastScoreUpdateRef = 0
    /\ lastHeuristicUpdateRef = 0
    /\ prevLandmarksRef = <<>>
    /\ lastValidLandmarksRef = <<>>
    /\ lastLandmarksTimeRef = 0
    /\ stabilityScoreRef = 0
    /\ lastMaskTimeRef = 0
    /\ requestRef = <<Closure>>
    /\ scheduled = <<Closure>>
    /\ mounted = TRUE
    /\ openMasks = 0
    /\ refreshed = TRUE
    /\ frame = NoFrame
    /\ ctx = DefaultState
    /\ service = Connected
    /\ decodedAt = -1
    /\ analyzedAt = <<-1, -1>>
    /\ probe = [fn |-> "none"]

TrackFrame == DetectPoseOn(DetectionsOf(MovingPoses))

TrackingNext ==
    \/ Tick
    \/ TrackFrame

TrackingSpec == TrackingInit /\ [][TrackingNext]_vars

-----------------------------------------------------------------------------
(* Incomplete frames: the pose model returns landmark sets that lack a       *)
(* point (a hip) among complete ones.                                        *)

\* A landmark set without the points in missing.
Without(pose, missing) == [i \in DOMAIN pose \ missing |-> pose[i]]

PartialPoses ==
    {Pose(0, 90), Pose(100, 90), Without(Pose(0, 90), {23})}

PartialFrame == DetectPoseOn(DetectionsOf(PartialPoses))

PartialNext ==
    \/ Tick
    \/ PartialFrame

PartialSpec == TrackingInit /\ [][PartialNext]_vars

-----------------------------------------------------------------------------
(* The life of the frame loop: start-up, exercise switches while no session  *)
(* is connected, removal of the component.                                   *)

LifecycleNext ==
    \/ Tick
    \/ PoseModelLoaded
    \/ CameraGranted
    \/ SelectWorkout
    \/ Unmount
    \/ DetectPose

LifecycleSpec == Init /\ [][LifecycleNext]_vars

-----------------------------------------------------------------------------
(* Frames with segmentation masks, complete and incomplete landmark sets.    *)

MaskPoses == {Pose(0, 90), Without(Pose(0, 90), {23})}

MaskFrame == DetectPoseOn(MaskedDetectionsOf(MaskPoses))

MaskNext ==
    \/ Tick
    \/ MaskFrame

\* The loop has just been started and no session is connected.
MaskInit == TrackingInit /\ ~isActive

MaskSpec == MaskInit /\ [][MaskNext]_vars

-----------------------------------------------------------------------------
(* A squat in which the knees come in between two frames.                    *)

\* The subject with the knees 0.104 apart, under 0.75 x the ankle width 0.14.
KneesIn == [Pose(0, 90) EXCEPT ![25].x = 5520, ![26].x = 4480]

KneePoses == {Pose(0, 90), KneesIn}

KneeFrame == DetectPoseOn(DetectionsOf(KneePoses))

KneeNext ==
    \/ Tick
    \/ KneeFrame

KneeSpec == TrackingInit /\ [][KneeNext]_vars

-----------------------------------------------------------------------------
(* The remote coaching service: server messages are handled as they arrive,  *)
(* each by its own call of handleMessage, which waits for its audio to be    *)
(* decoded.                                                                  *)

\* The decoded audio of a message: a buffer that plays for one tick.
decodeAudioData(id) == [duration |-> 1]

\* Lines 837-843: every tracked source is stopped, the set is cleared and
\* the schedule restarts; the audio received so far is stale from here on.
interrupted(svc) ==
    [svc EXCEPT !.playing = @ \ svc.sources,
                !.sources = {},
                !.nextStartTime = 0,
                !.stale = @ \cup svc.sources \cup svc.playing
                            \cup {h.id : h \in svc.decoding}]

\* handleMessage up to its await (lines 806-817), or to its end when the
\* message carries no audio.
HandleMessage ==
    /\ service.received < MaxMessages
    /\ \E audio \in BOOLEAN, interruption \in BOOLEAN :
         LET id   == service.received + 1
             seen == [service EXCEPT !.received = id]
         IN  service' =
                IF audio
                THEN [seen EXCEPT
                        !.nextStartTime = Max(@, clock),
                        !.decoding = @ \cup {[id |-> id,
                                              interrupted |-> interruption]}]
                ELSE IF interruption THEN interrupted(seen) ELSE seen
    /\ UNCHANGED <<pipelineVars, probe>>

\* handleMessage from the await on (lines 822-844): the decoded buffer is
\* given to a new source, which is started, scheduled and tracked; then the
\* message's interruption, if any, is handled.
AudioDecoded ==
    /\ \E h \in service.decoding :
         LET started ==
                 [service EXCEPT
                    !.decoding = @ \ {h},
                    !.playing = @ \cup {h.id},
                    !.nextStartTime = @ + decodeAudioData(h.id).duration,
                    !.sources = @ \cup {h.id}]
         IN  service' = IF h.interrupted THEN interrupted(started) ELSE started
    /\ UNCHANGED <<pipelineVars, probe>>

\* The 'ended' listener of a source that played to its end (lines 828-830).
SourceEnded ==
    /\ \E id \in service.playing :
         service' = [service EXCEPT !.playing = @ \ {id}, !.sources = @ \ {id}]
    /\ UNCHANGED <<pipelineVars, probe>>

ServiceNext ==
    \/ HandleMessage
    \/ AudioDecoded
    \/ SourceEnded

ServiceSpec == Init /\ [][ServiceNext]_vars

-----------------------------------------------------------------------------
(* Function scenarios: one function of the component applied to inputs drawn *)
(* from bounded sets, the component itself left as mounted.                  *)

\* Lines 573-575 on a score between 0 and 1.
ClassifyInit ==
    /\ Mounted
    /\ probe \in [fn : {"classify"}, done : {FALSE}, currentScore : 0..MaxScore,
                  currentQuality : {"-"}]

Classify ==
    /\ probe.fn = "classify" /\ ~probe.done
    /\ probe' = [probe EXCEPT !.done = TRUE,
                              !.currentQuality = classify(probe.currentScore)]
    /\ UNCHANGED <<pipelineVars, service>>

ClassifySpec == ClassifyInit /\ [][Classify]_vars

\* Lines 654-671 on one landmark's local velocity and the frame's global velocity.
SmoothInit ==
    /\ Mounted
    /\ probe \in [fn : {"smooth"}, done : {FALSE}, localVelocity : 0..MaxVelocity,
                  globalVelocity : 0..MaxVelocity, alpha : {0}]

Smooth ==
    /\ probe.fn = "smooth" /\ ~probe.done
    /\ probe' = [probe EXCEPT
                   !.done = TRUE,
                   !.alpha = blendFactor(hybridMetric(probe.localVelocity,
                                                      probe.globalVelocity))]
    /\ UNCHANGED <<pipelineVars, service>>

SmoothSpec == SmoothInit /\ [][Smooth]_vars

\* Movements of one landmark between the retained and the current set, per
\* axis: none, one grid step, 0.003 and 0.03, both ways.
Moves == {-300, -30, -1, 0, 1, 30, 300}

\* The retained landmark the probe moves away from.
Retained == [x |-> 5000, y |-> 5000, z |-> 0, visibility |-> 90]

\* Lines 652-678 on one landmark, its retained value and the frame's global
\* velocity.
LerpInit ==
    /\ Mounted
    /\ probe \in [fn : {"lerp"}, done : {FALSE}, dx : Moves, dy : Moves,
                  dz : Moves, globalVelocity : {0, 10, 400},
                  out : {Retained}]

SmoothLandmark ==
    /\ probe.fn = "lerp" /\ ~probe.done
    /\ probe' = [probe EXCEPT
                   !.done = TRUE,
                   !.out = smoothLandmark([x |-> Retained.x + probe.dx,
                                           y |-> Retained.y + probe.dy,
                                           z |-> Retained.z + probe.dz,
                                           visibility |-> 50],
                                          Retained, probe.globalVelocity)]
    /\ UNCHANGED <<pipelineVars, service>>

LerpSpec == LerpInit /\ [][SmoothLandmark]_vars

\* Lines 664-671 on two metric values.
BlendInit ==
    /\ Mounted
    /\ probe \in [fn : {"blend"}, done : {FALSE}, m1 : 0..MaxMetric,
                  m2 : 0..MaxMetric, alpha1 : {0}, alpha2 : {0}]

Blend ==
    /\ probe.fn = "blend" /\ ~probe.done
    /\ probe' = [probe EXCEPT !.done = TRUE,
                              !.alpha1 = blendFactor(probe.m1),
                              !.alpha2 = blendFactor(probe.m2)]
    /\ UNCHANGED <<pipelineVars, service>>

BlendSpec == BlendInit /\ [][Blend]_vars

\* The subject with the left shoulder dx to the side of and dy below the right.
ShouldersOf(dx, dy, vis) ==
    [Pose(0, vis) EXCEPT ![11].x = Pose(0, vis)[12].x + dx,
                         ![11].y = Pose(0, vis)[12].y + dy]

\* Shoulder offsets in steps of 0.01, and one just under 0.05.
Offsets == {100 * k : k \in 0..MaxOffset} \cup {NarrowShoulders - 1}

\* Lines 561-571 on a smoothed landmark set.
ScoreInit ==
    /\ Mounted
    /\ probe \in [fn : {"score"}, done : {FALSE}, dx : Offsets, dy : Offsets,
                  visibility : {50, 90}, score : {0}]

Score ==
    /\ probe.fn = "score" /\ ~probe.done
    /\ probe' = [probe EXCEPT
                   !.done = TRUE,
                   !.score = scoreOf(ShouldersOf(probe.dx, probe.dy,
                                                 probe.visibility))]
    /\ UNCHANGED <<pipelineVars, service>>

ScoreSpec == ScoreInit /\ [][Score]_vars

\* The subject with the elbows at leftElbowX and rightElbowX and the wrists
\* at height leftWristY and rightWristY, the left wrist seen with
\* visibility leftWristVis.
ArmsOf(p) ==
    [Pose(0, 90) EXCEPT ![13].x = p.leftElbowX, ![14].x = p.rightElbowX,
                        ![15].y = p.leftWristY, ![16].y = p.rightWristY,
                        ![15].visibility = p.leftWristVis]

\* Elbows under the shoulders or 0.19 out, wrists raised (0.35), hanging
\* above the hips (0.55) or below them (0.65).
Arms ==
    [leftElbowX : {6200, 7900}, rightElbowX : {3800, 2100},
     leftWristY : {3500, 5500, 6500}, rightWristY : {5500, 6500},
     leftWristVis : {20, 90}]

\* Lines 225-240 on a pair of arms and a stability score.
CurlInit ==
    /\ Mounted
    /\ probe \in [fn : {"curl"}, done : {FALSE}, arms : Arms,
                  stabilityScore : {0, 10, 25, 26}, cue : {null}]

Curl ==
    /\ probe.fn = "curl" /\ ~probe.done
    /\ probe' = [probe EXCEPT
                   !.done = TRUE,
                   !.cue = analyzePose(ArmsOf(probe.arms), "BICEP_CURL",
                                       probe.stabilityScore)]
    /\ UNCHANGED <<pipelineVars, service>>

CurlSpec == CurlInit /\ [][Curl]_vars

\* A landmark set for analyzePose: the skeleton with shoulders, knees and
\* ankles set symmetrically about x = 0.5, the hips torso below the
\* shoulders, the knees at depth kneeZ and the heels at height heelY.
BodyOf(p) ==
    [i \in LandmarkIdx |->
        [x |-> CASE i = 11 -> 5000 + p.shoulderHalf
                 [] i = 12 -> 5000 - p.shoulderHalf
                 [] i = 25 -> 5000 + p.kneeHalf
                 [] i = 26 -> 5000 - p.kneeHalf
                 [] i = 27 -> 5000 + p.ankleHalf
                 [] i = 28 -> 5000 - p.ankleHalf
                 [] OTHER  -> Skeleton[i - 10][1],
         y |-> CASE i \in {23, 24} -> Skeleton[1][2] + p.torso
                 [] i \in {29, 30} -> p.heelY
                 [] OTHER          -> Skeleton[i - 10][2],
         z |-> IF i \in {25, 26} THEN p.kneeZ ELSE 0,
         visibility |-> 90]]

Bodies ==
    [shoulderHalf : {50, 150, 1000}, torso : {100, 3000},
     kneeHalf : {100, 525, 700}, ankleHalf : {100, 700},
     kneeZ : {0, -2000}, heelY : {3000, 9200}]

\* Lines 191-272 on a body, a workout and a stability score.
AnalyzeInit ==
    /\ Mounted
    /\ probe \in [fn : {"analyze"}, done : {FALSE}, body : Bodies,
                  workout : WorkoutTypes, stabilityScore : {0, 22, 35},
                  cue : {null}]

Analyze ==
    /\ probe.fn = "analyze" /\ ~probe.done
    /\ probe' = [probe EXCEPT
                   !.done = TRUE,
                   !.cue = analyzePose(BodyOf(probe.body), probe.workout,
                                       probe.stabilityScore)]
    /\ UNCHANGED <<pipelineVars, service>>

AnalyzeSpec == AnalyzeInit /\ [][Analyze]_vars

-----------------------------------------------------------------------------
(* Properties *)

\* A step in which the animation-frame callback ran the body of detectPose.
CycleStep == refreshed /\ ~refreshed' /\ frame'.ran = "run"

\* x and y of the two hips of a landmark set.
HipsOf(landmarks) ==
    <<landmarks[23].x, landmarks[23].y, landmarks[24].x, landmarks[24].y>>

\* C1: in a cycle where the model supplies no landmarks and more than 200 ms
\* have passed since landmarks were last supplied, the cycle's quality is
\* LOST, its score is 0 and the retained smoothed set is cleared; and a
\* cleared retained set is only ever replaced by the unsmoothed landmarks of
\* the next cycle that has some (that frame is smoothed as a first frame).
C1_LossResets ==
    [][ /\ ( /\ CycleStep
             /\ frame'.result = "none"
             /\ clock - lastLandmarksTimeRef > 2 )
           => /\ frame'.quality = "LOST"
              /\ frame'.score = 0
              /\ prevLandmarksRef' = <<>>
        /\ (prevLandmarksRef = <<>> /\ prevLandmarksRef' # <<>>)
           => /\ CycleStep
              /\ frame'.landmarks # <<>>
              /\ prevLandmarksRef' = frame'.landmarks ]_vars

\* A previously tracked subject has been gone for more than 200 ms and the
\* cycle has cleared the retained set.
C1_Witness ==
    /\ frame.ran = "run"
    /\ frame.result = "none"
    /\ frame.window = "past"
    /\ lastValidLandmarksRef # <<>>
    /\ clock - lastLandmarksTimeRef > 2
    /\ prevLandmarksRef = <<>>

\* C2: in a cycle where the model supplies no landmarks and less than 200 ms
\* have passed since landmarks were last supplied, the last supplied raw set
\* is, unchanged, the cycle's input to smoothing, quality classification,
\* stability scoring and heuristics, and no retained state is cleared.
C2_GraceReuses ==
    [][ ( /\ CycleStep
          /\ frame'.result = "none"
          /\ clock - lastLandmarksTimeRef < 2 )
        => /\ lastValidLandmarksRef # <<>>
           /\ frame'.landmarks = lastValidLandmarksRef
           /\ lastValidLandmarksRef' = lastValidLandmarksRef
           /\ lastLandmarksTimeRef' = lastLandmarksTimeRef
           /\ prevLandmarksRef' =
                  <<adaptiveSmoothLandmarks(lastValidLandmarksRef[1],
                                            prevLandmarksRef)>>
           /\ frame'.score = scoreOf(prevLandmarksRef'[1])
           /\ frame'.quality = classify(frame'.score)
           /\ stabilityScoreRef' =
                  nextStability(stabilityScoreRef,
                                hipMovement(lastValidLandmarksRef[1],
                                            prevLandmarksRef'[1]))
           /\ frame'.analyzed
              => frame'.cue = analyzePose(lastValidLandmarksRef[1],
                                          requestRef[1].workoutType,
                                          stabilityScoreRef') ]_vars

\* A cycle without landmarks inside the window has worked on the last raw set,
\* which differs from the retained smoothed set.
C2_Witness ==
    /\ frame.ran = "run"
    /\ frame.result = "none"
    /\ frame.window = "within"
    /\ frame.landmarks # <<>>
    /\ frame.landmarks = lastValidLandmarksRef
    /\ prevLandmarksRef # <<>>
    /\ prevLandmarksRef # lastValidLandmarksRef

C4_Classification ==
    (probe.fn = "classify" /\ probe.done)
    => /\ probe.currentScore > 1920 => probe.currentQuality = "GOOD"
       /\ (probe.currentScore > 1200 /\ probe.currentScore <= 1920)
          => probe.currentQuality = "POOR"
       /\ probe.currentScore <= 1200 => probe.currentQuality = "LOST"
       /\ probe.currentScore = 1944 => probe.currentQuality = "GOOD"
       /\ probe.currentScore = 1920 => probe.currentQuality = "POOR"
       /\ probe.currentScore = 1224 => probe.currentQuality = "POOR"
       /\ probe.currentScore = 1200 => probe.currentQuality = "LOST"
       /\ probe.currentScore = 480 => probe.currentQuality = "LOST"

\* The score 0.8 itself has been classified, as POOR.
C4_Witness ==
    /\ probe.fn = "classify"
    /\ probe.done
    /\ probe.currentScore = 1920
    /\ probe.currentQuality = "POOR"

\* C5: in every reachable state the published pair is consistent: GOOD
\* implies score > 0.8, POOR implies 0.5 < score <= 0.8, LOST implies
\* score <= 0.5.
C5_PublishedPair ==
    /\ trackingQuality \in {"GOOD", "POOR", "LOST"}
    /\ trackingQuality = "GOOD" => trackingScore > 1920
    /\ trackingQuality = "POOR" => (trackingScore > 1200 /\ trackingScore <= 1920)
    /\ trackingQuality = "LOST" => trackingScore <= 1200

\* A cycle scoring exactly 0.8 has been published, after an earlier
\* publication, as POOR.
C5_Witness ==
    /\ frame.ran = "run"
    /\ frame.published
    /\ trackingQuality = "POOR"
    /\ trackingScore = 1920
    /\ clock > StartTick

\* C6: for every landmark whose motion metric max(localVelocity,
\* 0.6 x globalVelocity) is at most the lower threshold 0.0005, the blend
\* factor is exactly minAlpha = 0.08.
C6_MinAlpha ==
    ( /\ probe.fn = "smooth"
      /\ probe.done
      /\ probe.localVelocity <= 5
      /\ 6 * probe.globalVelocity <= 50 )
    => probe.alpha = 800

\* A landmark moving by exactly the lower threshold in a frame whose global
\* velocity scales to less has been given the blend factor 0.08.
C6_Witness ==
    /\ probe.fn = "smooth"
    /\ probe.done
    /\ probe.localVelocity = 5
    /\ probe.globalVelocity = 8
    /\ probe.alpha = 800

\* C7: for every metric at or above the upper threshold 0.025 the blend
\* factor is exactly maxAlpha = 0.92, and the blend factor is monotonic
\* non-decreasing in the metric: m1 <= m2 implies alpha(m1) <= alpha(m2).
C7_MaxAlphaMonotone ==
    (probe.fn = "blend" /\ probe.done)
    => /\ probe.m1 >= 250 => probe.alpha1 = 9200
       /\ probe.m1 <= probe.m2 => probe.alpha1 <= probe.alpha2

\* A metric between the thresholds got a smaller factor than a metric beyond
\* the upper threshold, which got 0.92.
C7_Witness ==
    /\ probe.fn = "blend"
    /\ probe.done
    /\ probe.m1 = 100
    /\ probe.m2 > 250
    /\ probe.alpha1 > 800
    /\ probe.alpha1 < probe.alpha2
    /\ probe.alpha2 = 9200

\* A cycle of a run: it and the cycle before it were both supplied landmarks
\* with the same hip positions, and neither was cut short by an exception.
SameHipsStep ==
    /\ CycleStep
    /\ frame'.result = "pose" /\ ~frame'.fault
    /\ frame.ran = "run" /\ frame.result = "pose" /\ ~frame.fault
    /\ HipsOf(frame'.landmarks[1]) = HipsOf(frame.landmarks[1])

\* C8 as stated: during a run of frames that supply the same hip positions
\* the stability score never increases.
C8_NeverIncreases ==
    [][SameHipsStep => stabilityScoreRef' <= stabilityScoreRef]_vars

\* C8: a run of consecutive frames that all supply the same hip positions
\* makes the stability score converge toward 0: every frame of the run
\* shrinks the distance between the supplied and the retained smoothed hip
\* midpoint, the score never exceeds the larger of its previous value and
\* that distance, and once the distance is gone the score strictly
\* decreases until it is 0.
C8_Converges ==
    [][SameHipsStep =>
         LET lagBefore == hipMovement(frame'.landmarks[1], prevLandmarksRef[1])
             lagAfter  == hipMovement(frame'.landmarks[1], prevLandmarksRef'[1])
         IN  /\ prevLandmarksRef # <<>>
             /\ lagAfter <= lagBefore
             /\ lagBefore > 0 => lagAfter < lagBefore
             /\ stabilityScoreRef' <= Max(stabilityScoreRef, lagAfter)
             /\ lagAfter = 0
                => /\ stabilityScoreRef' <= stabilityScoreRef
                   /\ stabilityScoreRef > 0
                      => stabilityScoreRef' < stabilityScoreRef ]_vars

\* In a run of the displaced subject the smoothed hips still lag the supplied
\* ones and the score has risen to 3.
C8_Witness ==
    /\ frame.ran = "run"
    /\ frame.result = "pose" /\ ~frame.fault
    /\ frame.landmarks = <<Pose(100, 90)>>
    /\ prevLandmarksRef # <<>>
    /\ hipMovement(frame.landmarks[1], prevLandmarksRef[1]) \in 1..20
    /\ stabilityScoreRef = 3

\* C9: for the squat with bodyScale >= 0.02, whenever ankleWidth >
\* 0.2 x bodyScale and kneeWidth < 0.75 x ankleWidth the analyzer returns
\* exactly "Push Knees Out!", whatever the knee and ankle depths are, and
\* "Keep Knees Behind Toes" is returned only when that first rule fails.
C9_SquatPrecedence ==
    ( /\ probe.fn = "analyze"
      /\ probe.done
      /\ probe.workout = "SQUAT"
      /\ 2 * probe.body.shoulderHalf + probe.body.torso >= 400 )
    => LET kneesIn ==
               /\ 20 * probe.body.ankleHalf
                      > 2 * probe.body.shoulderHalf + probe.body.torso
               /\ 4 * probe.body.kneeHalf < 3 * probe.body.ankleHalf
       IN  /\ kneesIn => probe.cue = "Push Knees Out!"
           /\ probe.cue = "Keep Knees Behind Toes" => ~kneesIn

\* A squat with the knees caved in and far in front of the ankles has been
\* analysed.
C9_Witness ==
    /\ probe.fn = "analyze"
    /\ probe.done
    /\ probe.workout = "SQUAT"
    /\ probe.body.shoulderHalf = 1000 /\ probe.body.torso = 3000
    /\ probe.body.ankleHalf = 700 /\ probe.body.kneeHalf = 100
    /\ probe.body.kneeZ = -2000
    /\ probe.cue = "Push Knees Out!"

\* C10: for every exercise, every stability score and every landmark
\* configuration, the analyzer returns no cue when bodyScale =
\* (shoulderWidth + torsoHeight) / 2 is below 0.02.
C10_NoCueWhenSmall ==
    ( /\ probe.fn = "analyze"
      /\ probe.done
      /\ 2 * probe.body.shoulderHalf + probe.body.torso < 400 )
    => probe.cue = null

\* An unsteady lunge of a body too small in the image has been analysed.
C10_Witness ==
    /\ probe.fn = "analyze"
    /\ probe.done
    /\ probe.workout = "LUNGE"
    /\ probe.stabilityScore = 35
    /\ probe.body.shoulderHalf = 50 /\ probe.body.torso = 100
    /\ probe.cue = null

\* The shapes of the overlay whose own landmarks are all in the set.
ShapesWithin(landmarks) ==
    {shape \in {Torso} \cup MuscleParts \cup {<<j>> : j \in JointWelds} :
        \A k \in 1..Len(shape) : shape[k] \in DOMAIN landmarks}

\* C11 as stated: in a frame whose landmark set lacks one or more points the
\* renderer paints every shape whose own landmarks are present and skips
\* only the others, and the cycle still scores and classifies the frame and
\* retains its smoothed set.
C11_SkipsOnlyMissing ==
    [][ ( /\ CycleStep
          /\ frame'.result = "pose" /\ ~frame'.fault
          /\ DOMAIN frame'.landmarks[1] # LandmarkIdx )
        => LET mean == (sumVisibility(frame'.landmarks[1], 22).total * 24)
                          \div sumVisibility(frame'.landmarks[1], 22).count
           IN  /\ frame'.painted = ShapesWithin(frame'.landmarks[1])
               /\ frame'.score \in {mean, mean \div 2}
               /\ frame'.quality = classify(frame'.score)
               /\ prevLandmarksRef' # <<>>
               /\ DOMAIN prevLandmarksRef'[1] = DOMAIN frame'.landmarks[1] ]_vars

\* C12 as stated: a cycle publishes a quality/score pair only if its
\* classification differs from the last published one, or its score differs
\* from the last published score by more than 0.1, or more than 100 ms have
\* passed since the last publication; every other cycle leaves the
\* published pair unchanged.
C12_PublishesOnlyWhen ==
    [][ CycleStep
        => /\ frame'.published
              => \/ frame'.quality # trackingQualityRef
                 \/ Abs(frame'.score - trackingScore) > 240
                 \/ clock - lastScoreUpdateRef > 1
           /\ ~frame'.published
              => UNCHANGED <<trackingQuality, trackingScore>> ]_vars

\* A step in which an animation-frame callback ran, skipped or not.
CallbackStep == refreshed /\ ~refreshed'

\* C13: every execution of the frame cycle, skipped, completed or cut short
\* by a caught exception from detection, smoothing, mask decoding or
\* rendering, ends by scheduling exactly one next cycle, the same
\* detectPose; the loop never halts.
C13_AlwaysReschedules ==
    [][ CallbackStep
        => /\ Len(scheduled') = Len(scheduled)
           /\ scheduled' # <<>>
           /\ scheduled'[Len(scheduled')] = Head(scheduled)
           /\ requestRef' = <<Head(scheduled)>> ]_vars

\* A cycle that obtained a mask and landmarks was cut short by an exception
\* and the loop is still scheduled.
C13_Witness ==
    /\ frame.ran = "run"
    /\ frame.result = "pose"
    /\ frame.aborted
    /\ frame.painted = {}
    /\ Len(scheduled) = 1

\* C14: at most one frame cycle is scheduled at any time, across pipeline
\* start, exercise switches and teardown, and the retained smoothed
\* landmarks, the stability score, the last published quality and the
\* heuristic timestamp are written only by that cycle.
C14_SingleCycle ==
    /\ [](Len(scheduled) <= 1)
    /\ [][ <<prevLandmarksRef, stabilityScoreRef, trackingQualityRef,
             lastHeuristicUpdateRef>>'
             # <<prevLandmarksRef, stabilityScoreRef, trackingQualityRef,
                 lastHeuristicUpdateRef>>
           => CycleStep /\ Len(scheduled) = 1 ]_vars

\* After an exercise switch the loop runs again, with one cycle scheduled.
C14_Witness ==
    /\ workoutType # "SQUAT"
    /\ frame.ran = "run"
    /\ prevLandmarksRef # <<>>
    /\ Len(scheduled) = 1
    /\ scheduled[1].workoutType = workoutType

\* C15: when the pipeline is torn down by an exercise switch or the removal
\* of the component, the pending cycle is cancelled and never executes;
\* after an exercise switch the only cycles that run are those of the newly
\* started loop, which use the newly selected exercise.
C15_TeardownCancels ==
    [][ /\ (mounted /\ ~mounted') => scheduled' = <<>>
        /\ workoutType' # workoutType
           => \A i \in 1..Len(scheduled') :
                 scheduled'[i].workoutType = workoutType'
        /\ CallbackStep
           => mounted /\ Head(scheduled).workoutType = workoutType ]_vars

\* The component was removed while the loop was running, and the display
\* has refreshed since the last cycle.
C15_Witness ==
    /\ ~mounted
    /\ isTracking /\ hasPermission
    /\ frame.ran = "run"
    /\ refreshed
    /\ scheduled = <<>>

\* C16: every segmentation mask obtained from the model in a cycle is closed
\* before the cycle ends, on normal completion and when an exception is
\* thrown after the mask was obtained; no mask stays open across cycles.
C16_MasksClosed == openMasks = 0

\* A cycle that obtained a mask was cut short by an exception, and no mask
\* is open.
C16_Witness ==
    /\ frame.ran = "run"
    /\ frame.mask
    /\ frame.aborted
    /\ lastMaskTimeRef = clock
    /\ openMasks = 0

\* C17: on every frame that has landmarks and a retained previous smoothed
\* set the stability score becomes 0.9 x its old value + 0.1 x the distance
\* between this frame's smoothed hip midpoint and the previous frame's
\* smoothed hip midpoint.
C17_SmoothedHipMovement ==
    [][ /\ CycleStep
        /\ frame'.landmarks # <<>> /\ ~frame'.aborted
        /\ prevLandmarksRef # <<>>
        => stabilityScoreRef'
              = nextStability(stabilityScoreRef,
                              hipMovement(prevLandmarksRef'[1],
                                          prevLandmarksRef[1])) ]_vars

\* C18: a first frame, which has no retained previous smoothed set, and a
\* frame without landmarks leave the stability score unchanged.
C18_StabilityUnchanged ==
    [][ /\ CycleStep
        /\ ~frame'.aborted
        /\ frame'.landmarks = <<>> \/ prevLandmarksRef = <<>>
        => stabilityScoreRef' = stabilityScoreRef ]_vars

\* C19: the local heuristics are computed from the smoothed landmark set of
\* the frame, not from the raw detection: the cue of an analysed frame is
\* the analyzer's result on the smoothed set the frame retains.
C19_CueFromSmoothed ==
    [][ CycleStep /\ frame'.analyzed
        => frame'.cue = analyzePose(prevLandmarksRef'[1],
                                    Head(scheduled).workoutType,
                                    stabilityScoreRef') ]_vars

\* C20: the tracking score is the mean visibility of landmarks 11..22,
\* halved when the two-dimensional distance (x and y) between landmarks 11
\* and 12 is below 0.05 and not halved otherwise.
C20_HalvedByDistance ==
    probe.fn = "score" /\ probe.done
    => LET mean == meanVisibility(ShouldersOf(probe.dx, probe.dy,
                                              probe.visibility))
       IN  probe.score
              = IF probe.dx * probe.dx + probe.dy * probe.dy
                     < NarrowShoulders * NarrowShoulders
                THEN mean \div 2
                ELSE mean

\* C21: when no previous smoothed set exists the smoother's output equals
\* its input unchanged; after every cycle that has landmarks, the output the
\* smoother returned in that cycle is the retained previous set used by the
\* next cycle.
C21_EveryCycleRetains ==
    [][ /\ CycleStep
        /\ frame'.landmarks # <<>>
        /\ frame'.result # "throw" /\ ~frame'.fault
        /\ ~smoothThrows(frame'.landmarks[1], prevLandmarksRef)
        => prevLandmarksRef'
              = <<adaptiveSmoothLandmarks(frame'.landmarks[1],
                                          prevLandmarksRef)>> ]_vars

\* C22: when the pipeline is torn down by an exercise change, the retained
\* smoothed landmarks, the stability score and the tracking quality are
\* reset to their initial state (no previous set, score 0, LOST); outside
\* tracking loss past the grace window and teardown, no event resets them.
C22_ExerciseChangeResets ==
    [][ /\ workoutType' # workoutType
           => /\ prevLandmarksRef' = <<>>
              /\ stabilityScoreRef' = 0
              /\ trackingQuality' = "LOST"
              /\ trackingQualityRef' = "LOST"
        /\ (prevLandmarksRef # <<>> /\ prevLandmarksRef' = <<>>)
           => \/ workoutType' # workoutType
              \/ mounted /\ ~mounted'
              \/ CycleStep /\ frame'.landmarks = <<>> ]_vars

\* C23: painted shapes are clipped to the mask silhouette in exactly those
\* cycles where the frame supplied a mask that was successfully decoded, or
\* a previously successfully-decoded mask is less than 200 ms old; in every
\* other cycle (no mask ever decoded, or the last decoded mask older than
\* the window) shapes are painted unclipped.
C23_ClippedWhenDecoded ==
    [][ CycleStep /\ frame'.painted # {}
        => ( frame'.clipped
             <=> \/ frame'.mask /\ decodedAt' = clock
                 \/ decodedAt # -1 /\ clock - decodedAt < 2 ) ]_vars

\* C28: at the end of every cycle, including a cycle in which an exception
\* was caught after drawing had begun, the overlay canvas drawing state is
\* back to its default: composite mode source-over, every save matched by a
\* restore.
C28_ContextRestored ==
    /\ ctx.globalCompositeOperation = "source-over"
    /\ ctx.saved = 0

\* C24: for the bicep curl the rules are tried in the order left arm "Tuck
\* Left Elbow", left arm "Curl up fully", right arm "Tuck Right Elbow",
\* then "Keep Torso Still" (stabilityScore > 0.0025), and the first rule
\* that holds is the result; "Keep Torso Still" is returned only when no
\* arm rule fired.
C24_CurlRuleOrder ==
    (probe.fn = "curl" /\ probe.done)
    => LET lm    == ArmsOf(probe.arms)
           width == Abs(lm[11].x - lm[12].x)
           leftActive  == lm[15].y < lm[23].y /\ lm[15].visibility > 50
           rightActive == lm[16].y < lm[24].y /\ lm[16].visibility > 50
           tuckLeft  == leftActive /\ 10 * Abs(lm[13].x - lm[11].x) > 9 * width
           curlUp    == /\ leftActive
                        /\ calculateAngle(lm[11], lm[13], lm[15]) > 160
                        /\ probe.stabilityScore < 10
           tuckRight == rightActive /\ 10 * Abs(lm[14].x - lm[12].x) > 9 * width
           still     == probe.stabilityScore > 25
       IN  /\ tuckLeft => probe.cue = "Tuck Left Elbow"
           /\ ~tuckLeft /\ curlUp => probe.cue = "Curl up fully"
           /\ ~tuckLeft /\ ~curlUp /\ tuckRight
              => probe.cue = "Tuck Right Elbow"
           /\ ~tuckLeft /\ ~curlUp /\ ~tuckRight /\ still
              => probe.cue = "Keep Torso Still"
           /\ ~tuckLeft /\ ~curlUp /\ ~tuckRight /\ ~still
              => probe.cue = null
           /\ probe.cue = "Keep Torso Still"
              => ~tuckLeft /\ ~curlUp /\ ~tuckRight

\* A curl with the right elbow out and an unstable torso got the arm cue.
C24_Witness ==
    /\ probe.fn = "curl" /\ probe.done
    /\ probe.stabilityScore = 26
    /\ probe.arms.rightElbowX = 2100 /\ probe.arms.rightWristY = 5500
    /\ probe.cue = "Tuck Right Elbow"

\* C25: a frame cycle changes the heuristic cue only when it runs the
\* analyzer, and then the cue is replaced by the analyzer's result,
\* including replacement by none; every other cycle (active flag of the
\* cycle not set, 500 ms not yet elapsed, no landmarks, tracking lost,
\* skipped cycle) leaves the previous cue unchanged.
C25_CueOnlyByAnalyzer ==
    [][ CallbackStep
        => IF frame'.analyzed
           THEN /\ heuristicFeedback' = frame'.cue
                /\ frame'.cue = analyzePose(frame'.landmarks[1],
                                            Head(scheduled).workoutType,
                                            stabilityScoreRef')
                /\ Head(scheduled).isActive
                /\ clock - lastHeuristicUpdateRef > 5
           ELSE heuristicFeedback' = heuristicFeedback ]_vars

\* A second analysis found nothing to say and set the cue to none.
C25_Witness ==
    /\ frame.ran = "run"
    /\ frame.analyzed
    /\ analyzedAt[1] # -1
    /\ frame.cue = null
    /\ heuristicFeedback = null

\* C26: once the session is active while the frame loop runs, the first
\* cycle with landmarks that runs more than 500 ms after the previous
\* evaluation runs the analyzer: the cycle tests the session's current
\* active flag, not the flag captured when the loop was started.
C26_CurrentActiveFlag ==
    [][ /\ CycleStep
        /\ isActive
        /\ frame'.landmarks # <<>> /\ ~frame'.aborted
        /\ clock - lastHeuristicUpdateRef > 5
        => frame'.analyzed ]_vars

\* C27: after any cycle in which the model supplied no landmarks and the
\* last landmarks were not reused, the retained previous smoothed set is
\* empty, also when exactly 200 ms have passed since landmarks were last
\* supplied: every landmark-less cycle either reuses the last landmarks or
\* performs the full reset.
C27_ReuseOrReset ==
    [][ /\ CycleStep
        /\ frame'.result = "none"
        /\ frame'.landmarks = <<>>
        => prevLandmarksRef' = <<>> ]_vars

C30_NoStaleAudio ==
    /\ service.playing \cap service.stale = {}
    /\ service.playing \subseteq service.sources

====
